---- MODULE Spec2Model ----
(***************************************************************************)
(* Lead lifecycle of the sales-lead pipeline (app/agents, app/utils,       *)
(* app/main, app/background_workers): the Prospector's concurrent scoring  *)
(* run, the Interpreter's handling of replies and the scheduled run of the *)
(* background worker over the stored leads; the credential pool of         *)
(* app/key_manager and the rate limiter of app/utils.                      *)
(*                                                                         *)
(* A list of lead objects is a sequence of indices into state.lead (the    *)
(* objects are mutated in place, so identity is the index).  Text is kept  *)
(* as a sequence of characters where the code looks inside it.             *)
(***************************************************************************)
EXTENDS Integers, Sequences, FiniteSets, TLC

VARIABLES
    lead,                 \* AgenticState.lead: the list of Lead objects
    performance_metrics,  \* AgenticState.performance_metrics
    pcP,                  \* position of the Prospector call: idle, running, done
    new_leads,            \* Prospector local: leads that were "new" at the start
    full_batches,         \* Prospector local
    partial_batch,        \* Prospector local
    futures,              \* the submitted work items, in submission order
    threads,              \* ThreadPoolExecutor: work item each worker thread runs (0: idle)
    lead0,                \* history: state.lead when the run started
    trace,                \* history, per lead: scores applied, by which work items
    db,                   \* table qualified_leads: one row per lead_id
    unread,               \* mailbox, per lead address: the messages labelled UNREAD
    arrived,              \* number of messages the leads have sent so far
    pcW,                  \* position of process_pending_leads: idle or the stage to run
    mark_failures,        \* history: calls of mark_as_read that failed
    env,                  \* environment: the value of each GROQ_API_KEY_i, or unset
    manager,              \* the module-level APIKeyManager(): none yet, built, error
    keys,                 \* APIKeyManager.keys
    thread_keys,          \* APIKeyManager.thread_keys, "None" where the thread has no entry
    lock,                 \* APIKeyManager.lock: the thread holding it (0: free)
    key_stats,            \* APIKeyManager.key_stats
    kt,                   \* per thread: position in the APIKeyManager method it runs, locals
    got,                  \* history, per thread: what get_key_for_thread returned
    order,                \* history: the assignments of get_key_for_thread, in order
    invoked,              \* history, per key: the calls of record_api_call that returned
    seen,                 \* history: the figures get_key_stats returned
    last_called,          \* rate_limited_call: last_called[0] of the decorated function
    clock,                \* time.time(), in ticks
    rt,                   \* per thread: position in the rate-limited wrapper, locals
    starts                \* history: the admitted calls, key and start time

prospectorVars == <<pcP, new_leads, full_batches, partial_batch, futures, threads,
                    lead0, trace>>

lifeVars == <<db, unread, arrived, pcW, mark_failures>>

keyVars == <<env, manager, keys, thread_keys, lock, key_stats, kt, got, order, invoked, seen>>

rateVars == <<last_called, clock, rt, starts>>

callVars == <<keyVars, rateVars>>

pipelineVars == <<lead, performance_metrics, prospectorVars, lifeVars>>

vars == <<pipelineVars, callVars>>

(***************************************************************************)
(* Bounds of the model.                                                    *)
(***************************************************************************)
PoolSize == 7
PlanPoolSize == 12
DispatchPoolSize == 6
LifePoolSize == 2
MaxMessages == 2
MaxMarkFailures == 1
KeyThreads == 3
MaxKeys == 2
MaxOps == 2
RateThreads == 2
MaxCalls == 2
MaxClock == 8
TicksPerMinute == 75

(***************************************************************************)
(* Program constants.                                                      *)
(***************************************************************************)
batch_size == 5
num_workers == 3
NoScore == -1

Min(a, b) == IF a < b THEN a ELSE b

\* Python's s[a:b] on a list, 0-based, clipped at the end of the list.
Slice(s, a, b) == SubSeq(s, a + 1, Min(b, Len(s)))

\* len(range(0, stop, step))
RangeLen(stop, step) == IF stop <= 0 THEN 0 ELSE (stop + step - 1) \div step

RECURSIVE Flatten(_)
Flatten(ss) == IF ss = <<>> THEN <<>> ELSE Head(ss) \o Flatten(Tail(ss))

Range(s) == {s[i] : i \in 1..Len(s)}

(***************************************************************************)
(* Lead (app/models/state.py).  last_outreach_timestamp is the attribute   *)
(* that Followup assigns and publish_lead and check_for_follow_ups read;   *)
(* it is absent ("None") on every lead that was not given one.             *)
(***************************************************************************)
NewLead ==
    [status |-> "new", qualified_lead |-> FALSE, score |-> NoScore,
     contacts |-> "None", personalized_message |-> "None",
     communication_history |-> <<>>, intent |-> "None",
     meeting_details |-> "None", last_outreach_timestamp |-> "None"]

\* An entry of communication_history: its type, the text it carries (0: the drafted
\* outreach text; a mailbox message is known by its number), the analysis of an
\* inbound reply and the mail thread of an outbound message.
Entry(type, message, analysis, thread_id) ==
    [type |-> type, message |-> message, analysis |-> analysis, thread_id |-> thread_id]

\* The entry process_single_lead_message appends for the drafted outreach e-mail.
outreach_entry == Entry("outreach_email", 0, "None", "None")

\* A qualified lead whose outreach e-mail has been sent (the Communicator's outcome).
OutreachSentLead ==
    [status |-> "outreach_sent", qualified_lead |-> TRUE, score |-> 90,
     contacts |-> "email", personalized_message |-> "msg",
     communication_history |-> <<outreach_entry>>, intent |-> "None",
     meeting_details |-> "None", last_outreach_timestamp |-> "None"]

\* A lead that has been through scoring, outreach and a reply.
InterestedLead ==
    [OutreachSentLead EXCEPT
        !.status = "interested",
        !.intent = "INTERESTED",
        !.communication_history = Append(@, Entry("inbound_reply", 1, "INTERESTED", "None"))]

(***************************************************************************)
(* LeadScore and what the reasoning service can answer.                    *)
(***************************************************************************)
ErrorDuringBatchScoring == <<"E", "r", "r", "o", "r", " ", "d", "u", "r", "i", "n", "g", " ", "b">>
ErrorDuringScoring == <<"E", "r", "r", "o", "r", " ", "d", "u", "r", "i", "n", "g", " ", "s">>
ErrorInData == <<"E", "r", "r", "o", "r", "s", " ", "i", "n">>
StrongFit == <<"S", "t", "r", "o", "n", "g">>
Weak == <<"W", "e", "a", "k">>

\* str.startswith("Error")
StartsWithError(text) ==
    /\ Len(text) >= 5
    /\ SubSeq(text, 1, 5) = <<"E", "r", "r", "o", "r">>

LeadScore(s, q, r) == [lead_score |-> s, qualification_status |-> q, reasoning |-> r]

\* Answers of the reasoning service for one lead (LeadScore: 0..100, three statuses,
\* free reasoning text).
Responses ==
    { LeadScore(90, "QUALIFIED", StrongFit),
      LeadScore(55, "NEEDS_REVIEW", Weak),
      LeadScore(20, "QUALIFIED", ErrorInData) }

NoResponse == LeadScore(NoScore, "None", <<>>)

Raised == [raised |-> TRUE, score |-> NoResponse]
Returned(r) == [raised |-> FALSE, score |-> r]

\* One call of call_llm(batch_mode=False): it raises or returns a LeadScore.
SingleLLM == {Raised} \cup {Returned(r) : r \in Responses}

\* The call score_lead({}, api_key) makes for a lead without data.
FallbackLLM == {Raised, Returned(LeadScore(10, "NOT_QUALIFIED", Weak))}

\* A returned batch whose length differs from the number of leads sent.
ShortBatch == [i \in 1..(batch_size - 1) |-> LeadScore(90, "QUALIFIED", StrongFit)]

\* One call of call_llm(batch_mode=True): it raises or returns result.lead_scores.
BatchLLM == {[raised |-> TRUE, lead_scores |-> <<>>]}
            \cup {[raised |-> FALSE, lead_scores |-> s] : s \in [1..batch_size -> Responses]}
            \cup {[raised |-> FALSE, lead_scores |-> ShortBatch]}

(***************************************************************************)
(* app/utils.py                                                            *)
(***************************************************************************)
RECURSIVE IdsFrom(_, _, _)
IdsFrom(state, status, i) ==
    IF i > Len(state) THEN <<>>
    ELSE (IF state[i].status = status THEN <<i>> ELSE <<>>) \o IdsFrom(state, status, i + 1)

\* No filter: every lead of the state.
get_leads_by_status_all(state, status) == [i \in 1..Len(state) |-> i]

get_leads_by_status(state, status) == IdsFrom(state, status, 1)

update_performance_metrics(metrics, metric_name, increment) ==
    IF metric_name \in DOMAIN metrics
    THEN [metrics EXCEPT ![metric_name] = @ + increment]
    ELSE metrics @@ (metric_name :> increment)

(***************************************************************************)
(* app/initialize.py                                                       *)
(***************************************************************************)
initial_metrics(n) ==
    [total_leads |-> n, processed_leads |-> 0, qualified_leads |-> 0,
     meetings_booked |-> 0, not_interested |-> 0, wrong_person |-> 0]

(***************************************************************************)
(* app/agents/prospector.py                                                *)
(***************************************************************************)
\* score_batch_of_leads: exc is the ValueError raised for a batch that is not of 5.
score_batch_of_leads(leads, llm) ==
    IF Len(leads) # 5 THEN [exc |-> TRUE, scores |-> <<>>]
    ELSE IF llm.raised
         THEN [exc |-> FALSE,
               scores |-> [i \in 1..Len(leads) |->
                              LeadScore(0, "NOT_QUALIFIED", ErrorDuringBatchScoring)]]
         ELSE [exc |-> FALSE, scores |-> llm.lead_scores]

score_lead(llm) ==
    IF llm.raised THEN LeadScore(0, "NOT_QUALIFIED", ErrorDuringScoring) ELSE llm.score

\* The score is applied, the error marker in the reasoning is not looked at.
process_lead_with_score_unmarked(l, score) ==
    [l EXCEPT !.contacts = "email",
              !.score = score.lead_score,
              !.qualified_lead = (score.qualification_status = "QUALIFIED"),
              !.status = "scored"]

process_lead_with_score(l, score) ==
    LET scored == [l EXCEPT !.contacts = "email",
                            !.score = score.lead_score,
                            !.qualified_lead = (score.qualification_status = "QUALIFIED"),
                            !.status = "scored"]
    IN  IF StartsWithError(score.reasoning) THEN [scored EXCEPT !.status = "failed"] ELSE scored

\* The scores process_batch applies to its leads, by position: those of the batch call,
\* or, when that raised or returned another number of scores, one score_lead({}) per lead.
batch_scores(leads, llm, fallback) ==
    LET r == score_batch_of_leads(leads, llm)
    IN  IF ~r.exc /\ Len(r.scores) = Len(leads)
        THEN r.scores
        ELSE [i \in 1..Len(leads) |-> score_lead(fallback[i])]

\* Whether process_batch took its except branch.
batch_failed_over(leads, llm) ==
    LET r == score_batch_of_leads(leads, llm)
    IN  r.exc \/ Len(r.scores) # Len(leads)

\* A task that scores its leads in a copy of the pool taken at submission and
\* writes the whole copy back.
apply_scores_to_copy(state, ids, scores) ==
    [i \in 1..Len(state) |->
        IF \E k \in 1..Len(ids) : ids[k] = i
        THEN process_lead_with_score(lead0[i],
                 scores[CHOOSE k \in 1..Len(ids) : ids[k] = i])
        ELSE lead0[i]]

\* Scores applied one position late: the k-th lead gets the score after its own.
apply_scores_shifted(state, ids, scores) ==
    [i \in 1..Len(state) |->
        IF \E k \in 1..Len(ids) : ids[k] = i
        THEN process_lead_with_score(state[i],
                 scores[((CHOOSE k \in 1..Len(ids) : ids[k] = i) % Len(ids)) + 1])
        ELSE state[i]]

\* The leads of the state after the scores were applied to the leads `ids`.
apply_scores(state, ids, scores) ==
    [i \in 1..Len(state) |->
        IF \E k \in 1..Len(ids) : ids[k] = i
        THEN process_lead_with_score(state[i],
                 scores[CHOOSE k \in 1..Len(ids) : ids[k] = i])
        ELSE state[i]]

\* range(0, len(new_leads), batch_size): the short tail becomes a "full" batch.
plan_stop_whole(n) == n

plan_stop(n) == n - (n % batch_size)

plan_full_batches(nl) ==
    [k \in 1..RangeLen(plan_stop(Len(nl)), batch_size) |->
        Slice(nl, (k - 1) * batch_size, (k - 1) * batch_size + batch_size)]

\* The leftovers start one lead late: a lead is in no work item.
plan_partial_batch_late(nl, fb) == Slice(nl, Len(fb) * batch_size + 1, Len(nl))

\* The leftovers start one lead early: a lead is in a batch and a single.
plan_partial_batch_early(nl, fb) ==
    Slice(nl, IF fb = <<>> THEN 0 ELSE Len(fb) * batch_size - 1, Len(nl))

plan_partial_batch(nl, fb) == Slice(nl, Len(fb) * batch_size, Len(nl))

\* A submitted future: its task and leads, and as history how often a worker took it,
\* how its reasoning-service call ended and the scores the task applied.
WorkItem(kind, ids) ==
    [kind |-> kind, leads |-> ids, state |-> "pending", runs |-> 0, llm |-> "none",
     scores |-> <<>>]

submit(fb, pb) ==
    [k \in 1..Len(fb) |-> WorkItem("batch", fb[k])]
    \o [k \in 1..Len(pb) |-> WorkItem("single", <<pb[k]>>)]

NoTrace == [applied |-> 0, by |-> {}]

\* Prospector up to the submission of the work items.
ProspectorStart ==
    /\ pcP = "idle"
    /\ LET nl == get_leads_by_status(lead, "new")
           fb == plan_full_batches(nl)
           pb == plan_partial_batch(nl, fb)
       IN  /\ new_leads' = nl
           /\ IF nl = <<>>
              THEN /\ pcP' = "done"
                   /\ UNCHANGED <<full_batches, partial_batch, futures>>
              ELSE /\ pcP' = "running"
                   /\ full_batches' = fb
                   /\ partial_batch' = pb
                   /\ futures' = submit(fb, pb)
    /\ lead0' = lead
    /\ UNCHANGED <<lead, performance_metrics, threads, trace, lifeVars, callVars>>

Pending == {j \in 1..Len(futures) : futures[j].state = "pending"}

\* An idle worker thread takes the oldest queued work item.
WorkerStart(w) ==
    /\ pcP = "running"
    /\ threads[w] = 0
    /\ Pending # {}
    /\ LET j == CHOOSE x \in Pending : \A y \in Pending : x <= y
       IN  /\ threads' = [threads EXCEPT ![w] = j]
           /\ futures' = [futures EXCEPT ![j].state = "running", ![j].runs = @ + 1]
    /\ UNCHANGED <<lead, performance_metrics, pcP, new_leads, full_batches, partial_batch,
                   lead0, trace, lifeVars, callVars>>

Record(tr, ids, j) ==
    [i \in DOMAIN tr |->
        IF \E k \in 1..Len(ids) : ids[k] = i
        THEN [applied |-> tr[i].applied + 1, by |-> tr[i].by \cup {j}]
        ELSE tr[i]]

Fallbacks(ids, llm) ==
    IF batch_failed_over(ids, llm)
    THEN [1..Len(ids) -> FallbackLLM]
    ELSE {[i \in 1..Len(ids) |-> Raised]}

\* process_batch, run to its end by worker thread w.
ProcessBatch(w) ==
    /\ pcP = "running"
    /\ threads[w] # 0
    /\ futures[threads[w]].kind = "batch"
    /\ LET j == threads[w]
           ids == futures[j].leads
       IN  \E llm \in BatchLLM : \E fallback \in Fallbacks(ids, llm) :
             LET scores == batch_scores(ids, llm, fallback)
             IN  /\ lead' = apply_scores(lead, ids, scores)
                 /\ trace' = Record(trace, ids, j)
                 /\ futures' = [futures EXCEPT
                        ![j].state = "done",
                        ![j].scores = scores,
                        ![j].llm = IF llm.raised THEN "raised"
                                   ELSE IF batch_failed_over(ids, llm) THEN "mismatch"
                                   ELSE "returned"]
    /\ threads' = [threads EXCEPT ![w] = 0]
    /\ UNCHANGED <<performance_metrics, pcP, new_leads, full_batches, partial_batch, lead0,
                   lifeVars, callVars>>

\* process_single, run to its end by worker thread w; the reasoning service answers
\* from `answers`.
ProcessSingle(w, answers) ==
    /\ pcP = "running"
    /\ threads[w] # 0
    /\ futures[threads[w]].kind = "single"
    /\ LET j == threads[w]
           ids == futures[j].leads
       IN  \E llm \in answers :
             LET scores == <<score_lead(llm)>>
             IN  /\ lead' = apply_scores(lead, ids, scores)
                 /\ trace' = Record(trace, ids, j)
                 /\ futures' = [futures EXCEPT
                        ![j].state = "done",
                        ![j].scores = scores,
                        ![j].llm = IF llm.raised THEN "raised" ELSE "returned"]
    /\ threads' = [threads EXCEPT ![w] = 0]
    /\ UNCHANGED <<performance_metrics, pcP, new_leads, full_batches, partial_batch, lead0,
                   lifeVars, callVars>>

\* sum(1 for lead in new_leads if lead.qualified_lead)
\* A count over every lead of the state, not only the leads of this run.
qualified_count_all(state, ids) ==
    Cardinality({i \in 1..Len(state) : state[i].qualified_lead})

qualified_count(state, ids) ==
    Cardinality({k \in 1..Len(ids) : state[ids[k]].qualified_lead})

\* A dispatch that does not wait for its work items: final statistics and return
\* as soon as all of them have been taken by a worker.
ProspectorFinish_early ==
    /\ pcP = "running"
    /\ \A j \in 1..Len(futures) : futures[j].state # "pending"
    /\ LET m1 == update_performance_metrics(performance_metrics, "processed_leads",
                                            Len(new_leads))
       IN  performance_metrics' =
               update_performance_metrics(m1, "qualified_leads",
                                          qualified_count(lead, new_leads))
    /\ pcP' = "done"
    /\ UNCHANGED <<lead, new_leads, full_batches, partial_batch, futures, threads, lead0, trace,
                   lifeVars, callVars>>

\* The executor has run every work item: final statistics, return.
ProspectorFinish ==
    /\ pcP = "running"
    /\ \A j \in 1..Len(futures) : futures[j].state = "done"
    /\ LET m1 == update_performance_metrics(performance_metrics, "processed_leads",
                                            Len(new_leads))
       IN  performance_metrics' =
               update_performance_metrics(m1, "qualified_leads",
                                          qualified_count(lead, new_leads))
    /\ pcP' = "done"
    /\ UNCHANGED <<lead, new_leads, full_batches, partial_batch, futures, threads, lead0, trace,
                   lifeVars, callVars>>

(***************************************************************************)
(* app/database.py: a row of qualified_leads, publish and load.            *)
(***************************************************************************)
\* No row with this lead_id.
NoRow ==
    [status |-> "no_row", qualified_lead |-> FALSE, score |-> NoScore,
     personalized_message |-> "None", intent |-> "None", meeting_details |-> "None",
     last_outreach_timestamp |-> "None", communication_history |-> <<>>]

\* A publish that inserts only: a row that is there for the id is kept as it is.
publish_lead_insert_only(row, l) ==
    IF ~l.qualified_lead \/ row # NoRow THEN row
    ELSE [status |-> l.status, qualified_lead |-> l.qualified_lead, score |-> l.score,
          personalized_message |-> l.personalized_message, intent |-> l.intent,
          meeting_details |-> l.meeting_details,
          last_outreach_timestamp |-> l.last_outreach_timestamp,
          communication_history |-> l.communication_history]

\* The row INSERT OR REPLACE leaves for the lead's id; nothing is written for a lead
\* that is not qualified.
publish_lead(row, l) ==
    IF ~l.qualified_lead THEN row
    ELSE [status |-> l.status, qualified_lead |-> l.qualified_lead, score |-> l.score,
          personalized_message |-> l.personalized_message, intent |-> l.intent,
          meeting_details |-> l.meeting_details,
          last_outreach_timestamp |-> l.last_outreach_timestamp,
          communication_history |-> l.communication_history]

update_lead_in_db(row, l) == publish_lead(row, l)

\* The Lead rebuilt from a row: contacts and last_outreach_timestamp are not passed on.
load_lead(row) ==
    [status |-> row.status, qualified_lead |-> row.qualified_lead, score |-> row.score,
     contacts |-> "None", personalized_message |-> row.personalized_message,
     communication_history |-> row.communication_history, intent |-> row.intent,
     meeting_details |-> row.meeting_details, last_outreach_timestamp |-> "None"]

\* SELECT * FROM qualified_leads WHERE status = ?, as the lead ids in row order.
load_leads_by_status(rows, status) == IdsFrom(rows, status, 1)

(***************************************************************************)
(* app/agents/interpreter.py and the mailbox of app/google_api_client.py   *)
(***************************************************************************)
LeadIntents == {"INTERESTED", "NOT_INTERESTED", "WRONG_PERSON", "NEEDS_CLARIFICATION"}

\* structured_llm.invoke: it raises or returns a LeadIntent.
IntentLLM == {"raised"} \cup LeadIntents

get_lead_intent(llm) == IF llm = "raised" THEN "NEEDS_CLARIFICATION" ELSE llm

status_map(intent) ==
    CASE intent = "INTERESTED" -> "interested"
      [] intent = "NOT_INTERESTED" -> "not_interested"
      [] intent = "WRONG_PERSON" -> "wrong_person"
      [] intent = "MEETING_TIME_CONFIRMED" -> "meeting_time_confirmed"
      [] intent = "NEEDS_CLARIFICATION" -> "needs_clarification"
      [] OTHER -> "needs_clarification"

metric_map(intent) ==
    CASE intent = "INTERESTED" -> "interested_leads"
      [] intent = "NOT_INTERESTED" -> "not_interested"
      [] intent = "WRONG_PERSON" -> "wrong_person"
      [] OTHER -> "None"

\* What the mail service and the reasoning service do for one lead of a run:
\* search_for_replies finds nothing (or fails), or it finds message msg; then
\* get_message_details gives its body or not, the intent call answers llm and
\* mark_as_read removes the UNREAD label or fails.
NoReply == [found |-> FALSE, msg |-> 0, body |-> FALSE, llm |-> "raised", marked |-> FALSE]

ReplyOutcomes(U, may_fail) ==
    {NoReply}
    \cup {[found |-> TRUE, msg |-> m, body |-> FALSE, llm |-> "raised", marked |-> FALSE] :
             m \in U}
    \cup {[found |-> TRUE, msg |-> m, body |-> TRUE, llm |-> a, marked |-> k] :
             m \in U, a \in IntentLLM, k \in (IF may_fail THEN BOOLEAN ELSE {TRUE})}

\* interpret_reply keeping only the newest entry of the history.
interpret_reply_overwriting(l, r) ==
    LET intent == get_lead_intent(r.llm)
        status == status_map(intent)
    IN  [l EXCEPT !.intent = intent,
                  !.status = status,
                  !.communication_history =
                      <<Entry("inbound_reply", r.msg, intent, "None")>>]

\* The body of the loop of Interpreter for one lead whose reply was read.
interpret_reply(l, r) ==
    LET intent == get_lead_intent(r.llm)
        status == status_map(intent)
    IN  [l EXCEPT !.intent = intent,
                  !.status = status,
                  !.meeting_details =
                      IF status = "meeting_time_confirmed" THEN "confirmed_time" ELSE @,
                  !.communication_history =
                      Append(@, Entry("inbound_reply", r.msg, intent, "None"))]

\* A pass that marks the message as read before its body is looked at.
interpreter_step_marking_first(st, i, r) ==
    IF ~r.found THEN st
    ELSE IF ~r.body THEN [st EXCEPT !.unread[i] = @ \ {r.msg}]
    ELSE LET intent == get_lead_intent(r.llm)
         IN  [lead |-> [st.lead EXCEPT ![i] = interpret_reply(@, r)],
              metrics |-> IF metric_map(intent) # "None"
                          THEN update_performance_metrics(st.metrics, metric_map(intent), 1)
                          ELSE st.metrics,
              unread |-> IF r.marked THEN [st.unread EXCEPT ![i] = @ \ {r.msg}]
                         ELSE st.unread,
              fails |-> IF r.marked THEN st.fails ELSE st.fails + 1]

\* One pass of the loop of Interpreter, for the lead ids[k]; st holds the leads of the
\* state, its metrics, the mailbox and the count of failed mark_as_read calls.
interpreter_step(st, i, r) ==
    IF ~(r.found /\ r.body) THEN st
    ELSE LET intent == get_lead_intent(r.llm)
         IN  [lead |-> [st.lead EXCEPT ![i] = interpret_reply(@, r)],
              metrics |-> IF metric_map(intent) # "None"
                          THEN update_performance_metrics(st.metrics, metric_map(intent), 1)
                          ELSE st.metrics,
              unread |-> IF r.marked THEN [st.unread EXCEPT ![i] = @ \ {r.msg}]
                         ELSE st.unread,
              fails |-> IF r.marked THEN st.fails ELSE st.fails + 1]

\* Interpreter over the leads ids[k..]: every state it can return.
RECURSIVE Interpreter(_, _, _)
Interpreter(st, ids, k) ==
    IF k > Len(ids) THEN {st}
    ELSE UNION {Interpreter(interpreter_step(st, ids[k], r), ids, k + 1) :
                   r \in ReplyOutcomes(st.unread[ids[k]], st.fails < MaxMarkFailures)}

(***************************************************************************)
(* app/agents/supervisor.py, scheduler.py, followup.py, record_keeper.py   *)
(***************************************************************************)
HighPriority(l) == l.score # NoScore /\ l.score # 0 /\ l.score >= 80

\* A Supervisor that filters and does not sort.
Supervisor_unsorted(leads, ids) ==
    LET interested(i) == leads[i].status = "interested"
    IN  SelectSeq(ids, interested)

\* Supervisor: the interested leads among ids, the high-priority ones first.
Supervisor(leads, ids) ==
    LET interested(i) == leads[i].status = "interested"
        high(i) == HighPriority(leads[i])
        low(i) == ~HighPriority(leads[i])
        interested_leads == SelectSeq(ids, interested)
    IN  SelectSeq(interested_leads, high) \o SelectSeq(interested_leads, low)

\* What send_email returns: the success record, the failure record or False (no
\* credentials file); only the last one is falsy.
SendResults == {"sent", "not_sent", "no_credentials"}

Truthy(send_result) == send_result # "no_credentials"

\* The calendar and mail answers to one Scheduler call.
SchedulerAnswers == [slots : BOOLEAN, email : SendResults, event : BOOLEAN]

HasEntry(l, type) ==
    \E k \in 1..Len(l.communication_history) : l.communication_history[k].type = type

\* proposed_slots[0] of an empty list: Stage 2 raises IndexError.
SchedulerRaises(l) ==
    l.status = "meeting_time_confirmed" /\ ~HasEntry(l, "outbound_scheduling")

Scheduler(l, r) ==
    IF l.status = "interested"
    THEN IF ~r.slots THEN [l EXCEPT !.status = "scheduling_failed_no_slots"]
         ELSE IF Truthy(r.email)
              THEN [l EXCEPT !.status = "scheduling_in_progress",
                             !.communication_history =
                                 Append(@, Entry("outbound_scheduling", 0, "None", "None"))]
              ELSE [l EXCEPT !.status = "scheduling_failed"]
    ELSE IF l.status = "meeting_time_confirmed"
         THEN IF r.event
              THEN [l EXCEPT !.status = "meeting_booked", !.meeting_details = "event"]
              ELSE [l EXCEPT !.status = "booking_failed"]
         ELSE l

\* The loop of process_pending_leads over the prioritized leads: each lead is
\* persisted after its Scheduler call; a call that raises ends the run.
RECURSIVE schedule_leads(_, _, _)
schedule_leads(rows, ids, r) ==
    IF ids = <<>> THEN [db |-> rows, raised |-> FALSE]
    ELSE LET i == Head(ids)
             l == load_lead(rows[i])
         IN  IF SchedulerRaises(l) THEN [db |-> rows, raised |-> TRUE]
             ELSE schedule_leads([rows EXCEPT ![i] = update_lead_in_db(@, Scheduler(l, r[i]))],
                                 Tail(ids), r)

\* check_for_follow_ups: a timestamp is there and older than two days.
follow_up_is_due(l) ==
    l.last_outreach_timestamp # "None" /\ l.last_outreach_timestamp = "old"

\* What the reasoning service and the mail service do for one follow-up: the draft
\* is returned or the call raises, and send_reply_in_thread answers sent or not.
FollowupAnswers == [llm : {"returned", "raised"}, sent : BOOLEAN]

\* The body used when the drafting call raised.
FallbackBody == -1

\* A Followup without the fallback body: a drafting call that raises fails the lead.
Followup_failing_on_draft(l, r) ==
    LET h == l.communication_history
    IN  IF ~HasEntry(l, "outreach_email") \/ r.llm = "raised"
        THEN [l EXCEPT !.status = "follow_up_failed"]
        ELSE LET original_message ==
                     h[CHOOSE k \in 1..Len(h) :
                           /\ h[k].type = "outreach_email"
                           /\ \A m \in 1..(k - 1) : h[m].type # "outreach_email"]
             IN  IF original_message.thread_id = "None" \/ ~r.sent
                 THEN [l EXCEPT !.status = "follow_up_failed"]
                 ELSE [l EXCEPT !.status = "outreach_sent",
                                !.last_outreach_timestamp = "now",
                                !.communication_history =
                                    Append(@, Entry("follow_up_email", 0, "None", "None"))]

Followup(l, r) ==
    LET h == l.communication_history
    IN  IF ~HasEntry(l, "outreach_email") THEN [l EXCEPT !.status = "follow_up_failed"]
        ELSE LET original_message ==
                     h[CHOOSE k \in 1..Len(h) :
                           /\ h[k].type = "outreach_email"
                           /\ \A m \in 1..(k - 1) : h[m].type # "outreach_email"]
                 follow_up_body == IF r.llm = "returned" THEN 0 ELSE FallbackBody
             IN  IF original_message.thread_id = "None"
                 THEN [l EXCEPT !.status = "follow_up_failed"]
                 ELSE IF r.sent
                      THEN [l EXCEPT !.status = "outreach_sent",
                                     !.last_outreach_timestamp = "now",
                                     !.communication_history =
                                         Append(@, Entry("follow_up_email", follow_up_body,
                                                         "None", "None"))]
                      ELSE [l EXCEPT !.status = "follow_up_failed"]

\* check_for_follow_ups over the stored rows: every loaded outreach_sent lead whose
\* timestamp is there and older than two days is stored as follow_up_due.
check_for_follow_ups(rows) ==
    [i \in 1..Len(rows) |->
        IF rows[i].status = "outreach_sent" /\ follow_up_is_due(load_lead(rows[i]))
        THEN update_lead_in_db(rows[i], [load_lead(rows[i]) EXCEPT !.status = "follow_up_due"])
        ELSE rows[i]]

\* RecordKeeper noting the archival in the history.
RecordKeeper_logging(l, connected) ==
    IF connected /\ l.status \in {"not_interested", "wrong_person"}
    THEN [l EXCEPT !.status = "archived",
                   !.communication_history = Append(@, Entry("archived", 0, "None", "None"))]
    ELSE l

\* RecordKeeper for one lead of its state; without a connection it returns at once.
RecordKeeper(l, connected) ==
    IF connected /\ l.status \in {"not_interested", "wrong_person"}
    THEN [l EXCEPT !.status = "archived"]
    ELSE l

(***************************************************************************)
(* app/key_manager.py: the credential pool.                                *)
(***************************************************************************)
\* The values a GROQ_API_KEY_i can hold; an unset or empty one ends the loading.
KeyValues == {"a", "b"}

\* _load_api_keys: GROQ_API_KEY_1, GROQ_API_KEY_2, ... up to the first one missing.
RECURSIVE load_api_keys(_, _)
load_api_keys(e, i) ==
    IF i > MaxKeys \/ e[i] = "unset" THEN <<>>
    ELSE <<e[i]>> \o load_api_keys(e, i + 1)

\* The test of __init__ with every list accepted.
has_keys_unchecked(ks) == TRUE

\* "if not self.keys: raise ValueError" of __init__, negated.
has_keys(ks) == ks # <<>>

\* The membership test of get_key_for_thread never finding the thread.
is_known_never(tk, t) == FALSE

\* thread_id in self.thread_keys
is_known(tk, t) == tk[t] # "None"

\* The index of the credential for a new thread, taken to be the first one always.
next_key_index_first(tk, ks) == 0

\* len(self.thread_keys) % len(self.keys)
next_key_index(tk, ks) == Cardinality({u \in DOMAIN tk : tk[u] # "None"}) % Len(ks)

\* A lock that lets every thread in.
lock_ignored(l) == TRUE

\* "with self.lock" can be entered.
lock_free(l) == l = 0

\* A thread outside the methods of the pool; ops counts the calls it has made.
IdleKT == [pc |-> "idle", key_index |-> 0, count |-> 0, key |-> "None", success |-> TRUE,
           tmp |-> 0, i |-> 0, ops |-> 0]

ZeroStats == [calls |-> 0, errors |-> 0]

\* app.key_manager has not been imported.
NotImported ==
    /\ manager = "none"
    /\ keys = <<>>
    /\ thread_keys = [t \in 1..KeyThreads |-> "None"]
    /\ lock = 0
    /\ key_stats = <<>>
    /\ kt = [t \in 1..KeyThreads |-> IdleKT]
    /\ got = [t \in 1..KeyThreads |-> <<>>]
    /\ order = <<>>
    /\ invoked = <<>>
    /\ seen = {}

NoManager == env = [i \in 1..MaxKeys |-> "unset"] /\ NotImported

\* api_key_manager = APIKeyManager(): the fields are set, then an empty list of keys
\* raises and no instance is bound.
Construct ==
    /\ manager = "none"
    /\ keys' = load_api_keys(env, 1)
    /\ key_stats' = [k \in Range(keys') |-> ZeroStats]
    /\ invoked' = [k \in Range(keys') |-> ZeroStats]
    /\ manager' = IF has_keys(keys') THEN "built" ELSE "error"
    /\ UNCHANGED <<env, thread_keys, lock, kt, got, order, seen, pipelineVars, rateVars>>

\* A thread calls get_key_for_thread: the membership test, outside the lock.
GetKeyCheck(t) ==
    /\ manager = "built"
    /\ kt[t].pc = "idle"
    /\ kt[t].ops < MaxOps
    /\ kt' = [kt EXCEPT ![t].pc = IF is_known(thread_keys, t) THEN "return" ELSE "lock_k",
                        ![t].ops = @ + 1]
    /\ UNCHANGED <<env, manager, keys, thread_keys, lock, key_stats, got, order, invoked, seen,
                   pipelineVars, rateVars>>

GetKeyLock(t) ==
    /\ kt[t].pc = "lock_k"
    /\ lock_free(lock)
    /\ lock' = t
    /\ kt' = [kt EXCEPT ![t].pc = "index"]
    /\ UNCHANGED <<env, manager, keys, thread_keys, key_stats, got, order, invoked, seen,
                   pipelineVars, rateVars>>

\* key_index = len(self.thread_keys) % len(self.keys)
GetKeyIndex(t) ==
    /\ kt[t].pc = "index"
    /\ kt' = [kt EXCEPT ![t].pc = "assign",
                        ![t].count = Cardinality({u \in DOMAIN thread_keys :
                                                     thread_keys[u] # "None"}),
                        ![t].key_index = next_key_index(thread_keys, keys)]
    /\ UNCHANGED <<env, manager, keys, thread_keys, lock, key_stats, got, order, invoked, seen,
                   pipelineVars, rateVars>>

\* self.thread_keys[thread_id] = self.keys[key_index], and the lock is left.
GetKeyAssign(t) ==
    /\ kt[t].pc = "assign"
    /\ thread_keys' = [thread_keys EXCEPT ![t] = keys[kt[t].key_index + 1]]
    /\ order' = Append(order, [thread |-> t, count |-> kt[t].count,
                               key_index |-> kt[t].key_index])
    /\ lock' = 0
    /\ kt' = [kt EXCEPT ![t].pc = "return", ![t].count = 0, ![t].key_index = 0]
    /\ UNCHANGED <<env, manager, keys, key_stats, got, invoked, seen, pipelineVars, rateVars>>

\* return self.thread_keys[thread_id]
GetKeyReturn(t) ==
    /\ kt[t].pc = "return"
    /\ got' = [got EXCEPT ![t] = Append(@, thread_keys[t])]
    /\ kt' = [kt EXCEPT ![t].pc = "idle"]
    /\ UNCHANGED <<env, manager, keys, thread_keys, lock, key_stats, order, invoked, seen,
                   pipelineVars, rateVars>>

\* A thread calls record_api_call(key, success) for one of the keys.
RecordStart(t) ==
    /\ manager = "built"
    /\ kt[t].pc = "idle"
    /\ kt[t].ops < MaxOps
    /\ \E k \in Range(keys), success \in BOOLEAN :
          kt' = [kt EXCEPT ![t].pc = "lock_r", ![t].key = k, ![t].success = success,
                           ![t].ops = @ + 1]
    /\ UNCHANGED <<env, manager, keys, thread_keys, lock, key_stats, got, order, invoked, seen,
                   pipelineVars, rateVars>>

\* with self.lock: if key in self.key_stats
RecordLock(t) ==
    /\ kt[t].pc = "lock_r"
    /\ lock_free(lock)
    /\ lock' = t
    /\ kt' = [kt EXCEPT ![t].pc = IF kt[t].key \in DOMAIN key_stats THEN "read_calls"
                                  ELSE "unlock_r"]
    /\ UNCHANGED <<env, manager, keys, thread_keys, key_stats, got, order, invoked, seen,
                   pipelineVars, rateVars>>

\* self.key_stats[key]["calls"] += 1: the value is read ...
RecordReadCalls(t) ==
    /\ kt[t].pc = "read_calls"
    /\ kt' = [kt EXCEPT ![t].pc = "write_calls", ![t].tmp = key_stats[kt[t].key].calls]
    /\ UNCHANGED <<env, manager, keys, thread_keys, lock, key_stats, got, order, invoked, seen,
                   pipelineVars, rateVars>>

\* ... and the sum is stored.
RecordWriteCalls(t) ==
    /\ kt[t].pc = "write_calls"
    /\ key_stats' = [key_stats EXCEPT ![kt[t].key].calls = kt[t].tmp + 1]
    /\ kt' = [kt EXCEPT ![t].pc = IF kt[t].success THEN "unlock_r" ELSE "read_errors",
                        ![t].tmp = 0]
    /\ UNCHANGED <<env, manager, keys, thread_keys, lock, got, order, invoked, seen,
                   pipelineVars, rateVars>>

\* if not success: self.key_stats[key]["errors"] += 1
RecordReadErrors(t) ==
    /\ kt[t].pc = "read_errors"
    /\ kt' = [kt EXCEPT ![t].pc = "write_errors", ![t].tmp = key_stats[kt[t].key].errors]
    /\ UNCHANGED <<env, manager, keys, thread_keys, lock, key_stats, got, order, invoked, seen,
                   pipelineVars, rateVars>>

RecordWriteErrors(t) ==
    /\ kt[t].pc = "write_errors"
    /\ key_stats' = [key_stats EXCEPT ![kt[t].key].errors = kt[t].tmp + 1]
    /\ kt' = [kt EXCEPT ![t].pc = "unlock_r", ![t].tmp = 0]
    /\ UNCHANGED <<env, manager, keys, thread_keys, lock, got, order, invoked, seen,
                   pipelineVars, rateVars>>

\* The lock is left and record_api_call returns.
RecordUnlock(t) ==
    /\ kt[t].pc = "unlock_r"
    /\ lock' = 0
    /\ invoked' = [invoked EXCEPT ![kt[t].key] =
                      [calls |-> @.calls + 1,
                       errors |-> @.errors + (IF kt[t].success THEN 0 ELSE 1)]]
    /\ kt' = [kt EXCEPT ![t].pc = "idle", ![t].key = "None", ![t].success = TRUE]
    /\ UNCHANGED <<env, manager, keys, thread_keys, key_stats, got, order, seen,
                   pipelineVars, rateVars>>

\* A thread calls get_key_stats.
StatsStart(t) ==
    /\ manager = "built"
    /\ kt[t].pc = "idle"
    /\ kt[t].ops < MaxOps
    /\ kt' = [kt EXCEPT ![t].pc = "lock_s", ![t].ops = @ + 1]
    /\ UNCHANGED <<env, manager, keys, thread_keys, lock, key_stats, got, order, invoked, seen,
                   pipelineVars, rateVars>>

StatsLock(t) ==
    /\ kt[t].pc = "lock_s"
    /\ lock_free(lock)
    /\ lock' = t
    /\ kt' = [kt EXCEPT ![t].pc = "stats_calls", ![t].i = 1]
    /\ UNCHANGED <<env, manager, keys, thread_keys, key_stats, got, order, invoked, seen,
                   pipelineVars, rateVars>>

\* "calls": self.key_stats[key]["calls"] for the i-th key
StatsReadCalls(t) ==
    /\ kt[t].pc = "stats_calls"
    /\ kt' = [kt EXCEPT ![t].pc = "stats_errors", ![t].tmp = key_stats[keys[kt[t].i]].calls]
    /\ UNCHANGED <<env, manager, keys, thread_keys, lock, key_stats, got, order, invoked, seen,
                   pipelineVars, rateVars>>

\* "errors": self.key_stats[key]["errors"] for the i-th key; then the next key.
StatsReadErrors(t) ==
    /\ kt[t].pc = "stats_errors"
    /\ seen' = seen \cup {[calls |-> kt[t].tmp, errors |-> key_stats[keys[kt[t].i]].errors]}
    /\ kt' = [kt EXCEPT ![t].pc = IF kt[t].i < Len(keys) THEN "stats_calls" ELSE "unlock_s",
                        ![t].i = IF kt[t].i < Len(keys) THEN @ + 1 ELSE 0,
                        ![t].tmp = 0]
    /\ UNCHANGED <<env, manager, keys, thread_keys, lock, key_stats, got, order, invoked,
                   pipelineVars, rateVars>>

\* The lock is left and get_key_stats returns.
StatsUnlock(t) ==
    /\ kt[t].pc = "unlock_s"
    /\ lock' = 0
    /\ kt' = [kt EXCEPT ![t].pc = "idle"]
    /\ UNCHANGED <<env, manager, keys, thread_keys, key_stats, got, order, invoked, seen,
                   pipelineVars, rateVars>>

(***************************************************************************)
(* app/utils.py: rate_limited_call.                                        *)
(***************************************************************************)
\* @rate_limited_call(max_per_minute=25) on call_llm of the Prospector.
max_per_minute == 25

\* interval = 60.0 / max_per_minute, in ticks (2.4 s at 0.8 s a tick).
interval == TicksPerMinute \div max_per_minute

\* A thread outside the wrapper; calls counts the calls it has made.
IdleRT == [pc |-> "idle", key |-> "None", now |-> 0, wake |-> 0, calls |-> 0]

\* No call of the rate-limited function has been made: last_called = [0.0], and
\* time.time() is more than one interval past it.
NoLimiter ==
    /\ last_called = 0
    /\ clock = interval
    /\ rt = [t \in 1..RateThreads |-> IdleRT]
    /\ starts = <<>>

\* Time passes.
Tick ==
    /\ clock < MaxClock
    /\ clock' = clock + 1
    /\ UNCHANGED <<last_called, rt, starts, pipelineVars, keyVars>>

\* Time does not stop while a thread is in time.sleep.
TickAsleep ==
    /\ clock >= MaxClock
    /\ \E t \in 1..RateThreads : rt[t].pc = "sleep" /\ clock < rt[t].wake
    /\ clock' = clock + 1
    /\ UNCHANGED <<last_called, rt, starts, pipelineVars, keyVars>>

\* A thread calls the wrapper with a key, before MaxClock: now = time.time()
LimiterEnter(t) ==
    /\ rt[t].pc = "idle"
    /\ rt[t].calls < MaxCalls
    /\ clock < MaxClock
    /\ \E k \in KeyValues :
          rt' = [rt EXCEPT ![t].pc = "elapsed", ![t].key = k, ![t].now = clock,
                           ![t].calls = @ + 1]
    /\ UNCHANGED <<last_called, clock, starts, pipelineVars, keyVars>>

\* elapsed = now - last_called[0]; wait = interval - elapsed; if wait > 0: time.sleep(wait)
LimiterElapsed(t) ==
    /\ rt[t].pc = "elapsed"
    /\ LET elapsed == rt[t].now - last_called
           wait == interval - elapsed
       IN  rt' = [rt EXCEPT ![t].pc = IF wait > 0 THEN "sleep" ELSE "call",
                            ![t].wake = IF wait > 0 THEN clock + wait ELSE 0,
                            ![t].now = 0]
    /\ UNCHANGED <<last_called, clock, starts, pipelineVars, keyVars>>

\* A wrapper that turns the waiting call away instead of making it.
LimiterWake_rejecting(t) ==
    /\ rt[t].pc = "sleep"
    /\ clock >= rt[t].wake
    /\ rt' = [rt EXCEPT ![t].pc = "idle", ![t].key = "None"]
    /\ UNCHANGED <<last_called, clock, starts, pipelineVars, keyVars>>

\* time.sleep(wait) returns, not before the time has passed.
LimiterWake(t) ==
    /\ rt[t].pc = "sleep"
    /\ clock >= rt[t].wake
    /\ rt' = [rt EXCEPT ![t].pc = "call"]
    /\ UNCHANGED <<last_called, clock, starts, pipelineVars, keyVars>>

\* result = func(*args, **kwargs): the call to the reasoning service starts.
LimiterCall(t) ==
    /\ rt[t].pc = "call"
    /\ starts' = Append(starts, [key |-> rt[t].key, time |-> clock, thread |-> t])
    /\ rt' = [rt EXCEPT ![t].pc = "in_call", ![t].wake = 0]
    /\ UNCHANGED <<last_called, clock, pipelineVars, keyVars>>

\* func returns, or it raises (call_llm re-raises) and the wrapper is left.
LimiterCallEnds(t) ==
    /\ rt[t].pc = "in_call"
    /\ \E raised \in BOOLEAN :
          rt' = [rt EXCEPT ![t].pc = IF raised THEN "idle" ELSE "stamp",
                           ![t].key = IF raised THEN "None" ELSE @]
    /\ UNCHANGED <<last_called, clock, starts, pipelineVars, keyVars>>

\* last_called[0] = time.time(); return result
LimiterStamp(t) ==
    /\ rt[t].pc = "stamp"
    /\ last_called' = clock
    /\ rt' = [rt EXCEPT ![t].pc = "idle", ![t].key = "None"]
    /\ UNCHANGED <<clock, starts, pipelineVars, keyVars>>

(***************************************************************************)
(* app/agents/strategist.py                                                *)
(***************************************************************************)
\* call_llm for one message: it raises or returns a PersonalizedMessage.  When it
\* raises, the fallback PersonalizedMessage is built without its required salutation
\* and signature, so generate_personalized_message raises as well.
StrategistLLM == {"raised", "returned"}

\* process_single_lead_message for a call that returned.
process_single_lead_message(l) ==
    IF ~l.qualified_lead THEN l
    ELSE [l EXCEPT !.personalized_message = "msg",
                   !.communication_history = Append(@, outreach_entry),
                   !.status = "message_generated"]

\* The body of the loop of Strategist for one lead.
strategist_step(l, llm) ==
    IF llm = "raised" THEN [l EXCEPT !.status = "message_generation_failed"]
    ELSE process_single_lead_message(l)

\* The leads Strategist selects.
strategist_leads(state) ==
    {i \in 1..Len(state) : /\ state[i].qualified_lead
                           /\ state[i].status = "scored"
                           /\ state[i].personalized_message = "None"}

(***************************************************************************)
(* The mailbox, app/main.py and app/background_workers.py                  *)
(***************************************************************************)
\* A lead sends a message: it is UNREAD in the mailbox.
ReplyArrives(i) ==
    /\ arrived < MaxMessages
    /\ arrived' = arrived + 1
    /\ unread' = [unread EXCEPT ![i] = @ \cup {arrived + 1}]
    /\ UNCHANGED <<lead, performance_metrics, prospectorVars, callVars, db, pcW, mark_failures>>

\* POST /interpreter/run: Interpreter over every lead of global_state.
run_interpreter ==
    /\ pcP # "running"
    /\ lead # <<>>
    /\ LET st0 == [lead |-> lead, metrics |-> performance_metrics, unread |-> unread,
                   fails |-> mark_failures]
       IN  \E st \in Interpreter(st0, [i \in 1..Len(lead) |-> i], 1) :
               /\ lead' = st.lead
               /\ performance_metrics' = st.metrics
               /\ unread' = st.unread
               /\ mark_failures' = st.fails
    /\ UNCHANGED <<prospectorVars, callVars, db, arrived, pcW>>

\* POST /strategist/run: Strategist over global_state; a lead whose message was
\* generated is published unless the write fails.
run_strategist ==
    /\ pcP # "running"
    /\ strategist_leads(lead) # {}
    /\ \E connected \in BOOLEAN :
          IF ~connected THEN UNCHANGED <<lead, performance_metrics, db>>
          ELSE \E llm \in [strategist_leads(lead) -> StrategistLLM],
                  published \in [strategist_leads(lead) -> BOOLEAN] :
                   LET processed_count ==
                           Cardinality({i \in strategist_leads(lead) : llm[i] = "returned"})
                       m1 == update_performance_metrics(performance_metrics,
                                                        "messages_generated", processed_count)
                   IN  /\ lead' = [i \in 1..Len(lead) |->
                                      IF i \in strategist_leads(lead)
                                      THEN strategist_step(lead[i], llm[i])
                                      ELSE lead[i]]
                       /\ db' = [i \in 1..Len(db) |->
                                    IF /\ i \in strategist_leads(lead)
                                       /\ llm[i] = "returned"
                                       /\ published[i]
                                    THEN publish_lead(db[i], strategist_step(lead[i], llm[i]))
                                    ELSE db[i]]
                       /\ performance_metrics' =
                              update_performance_metrics(m1, "strategist_processed",
                                                         processed_count)
    /\ UNCHANGED <<prospectorVars, callVars, unread, arrived, pcW, mark_failures>>

\* process_pending_leads up to the Scheduler: connection, check_for_follow_ups and
\* Followup for every lead that is due, each persisted after its call.
WorkerFollowUps ==
    /\ pcW = "idle"
    /\ \E connected \in BOOLEAN :
          IF ~connected THEN UNCHANGED <<db, pcW>>
          ELSE LET db1 == check_for_follow_ups(db)
                   ids == Range(load_leads_by_status(db1, "follow_up_due"))
               IN  /\ \E r \in [ids -> FollowupAnswers] :
                          db' = [i \in 1..Len(db) |->
                                    IF i \in ids
                                    THEN update_lead_in_db(db1[i],
                                             Followup(load_lead(db1[i]), r[i]))
                                    ELSE db1[i]]
                   /\ pcW' = "scheduler"
    /\ UNCHANGED <<lead, performance_metrics, prospectorVars, callVars, unread, arrived, mark_failures>>

\* The leads the Scheduler is called for, in the order of the calls: the interested
\* ones as the Supervisor returns them, then the ones with a confirmed meeting time.
prioritized_leads(rows) ==
    LET loaded == [i \in 1..Len(rows) |-> load_lead(rows[i])]
        leads_for_scheduler == load_leads_by_status(rows, "interested")
                               \o load_leads_by_status(rows, "meeting_time_confirmed")
        confirmed(i) == loaded[i].status = "meeting_time_confirmed"
    IN  Supervisor(loaded, leads_for_scheduler) \o SelectSeq(leads_for_scheduler, confirmed)

\* process_pending_leads, "Run Scheduler First": Supervisor, then Scheduler lead by lead.
WorkerScheduler ==
    /\ pcW = "scheduler"
    /\ \E r \in [Range(prioritized_leads(db)) -> SchedulerAnswers] :
          LET run == schedule_leads(db, prioritized_leads(db), r)
          IN  /\ db' = run.db
              /\ pcW' = IF run.raised THEN "idle" ELSE "interpreter"
    /\ UNCHANGED <<lead, performance_metrics, prospectorVars, callVars, unread, arrived, mark_failures>>

\* A run in which the Interpreter stage comes before the Scheduler stage.
WorkerInterpreter_before_scheduler ==
    /\ pcW = "interpreter"
    /\ LET leads_awaiting_reply == load_leads_by_status(db, "outreach_sent")
                                   \o load_leads_by_status(db, "scheduling_in_progress")
           st0 == [lead |-> [i \in 1..Len(db) |-> load_lead(db[i])], metrics |-> <<>>,
                   unread |-> unread, fails |-> mark_failures]
       IN  \E st \in Interpreter(st0, leads_awaiting_reply, 1) :
               /\ db' = [i \in 1..Len(db) |->
                            IF /\ i \in Range(leads_awaiting_reply)
                               /\ st.lead[i].status \notin {"outreach_sent",
                                                            "scheduling_in_progress"}
                            THEN update_lead_in_db(db[i], st.lead[i])
                            ELSE db[i]]
               /\ unread' = st.unread
               /\ mark_failures' = st.fails
    /\ pcW' = "scheduler"
    /\ UNCHANGED <<lead, performance_metrics, prospectorVars, callVars, arrived>>

\* process_pending_leads, "Run Interpreter Second": the leads awaiting a reply; a lead
\* is persisted when its status is no longer one of the two awaited ones.
WorkerInterpreter ==
    /\ pcW = "interpreter"
    /\ LET leads_awaiting_reply == load_leads_by_status(db, "outreach_sent")
                                   \o load_leads_by_status(db, "scheduling_in_progress")
           st0 == [lead |-> [i \in 1..Len(db) |-> load_lead(db[i])], metrics |-> <<>>,
                   unread |-> unread, fails |-> mark_failures]
       IN  \E st \in Interpreter(st0, leads_awaiting_reply, 1) :
               /\ db' = [i \in 1..Len(db) |->
                            IF /\ i \in Range(leads_awaiting_reply)
                               /\ st.lead[i].status \notin {"outreach_sent",
                                                            "scheduling_in_progress"}
                            THEN update_lead_in_db(db[i], st.lead[i])
                            ELSE db[i]]
               /\ unread' = st.unread
               /\ mark_failures' = st.fails
    /\ pcW' = "record_keeper"
    /\ UNCHANGED <<lead, performance_metrics, prospectorVars, callVars, arrived>>

\* The same stage when update_lead_in_db raises (sqlite3 error of execute or commit)
\* for one of the changed leads: the Interpreter has returned, having handled every
\* awaiting lead; the changed leads before the failing one are persisted, and the
\* exception leaves process_pending_leads.
WorkerInterpreterAborts ==
    /\ pcW = "interpreter"
    /\ LET leads_awaiting_reply == load_leads_by_status(db, "outreach_sent")
                                   \o load_leads_by_status(db, "scheduling_in_progress")
           st0 == [lead |-> [i \in 1..Len(db) |-> load_lead(db[i])], metrics |-> <<>>,
                   unread |-> unread, fails |-> mark_failures]
       IN  \E st \in Interpreter(st0, leads_awaiting_reply, 1) :
               LET moved(i) == st.lead[i].status \notin {"outreach_sent",
                                                         "scheduling_in_progress"}
                   changed == SelectSeq(leads_awaiting_reply, moved)
               IN  /\ changed # <<>>
                   /\ \E c \in 1..Len(changed) :
                          db' = [i \in 1..Len(db) |->
                                    IF \E k \in 1..(c - 1) : changed[k] = i
                                    THEN update_lead_in_db(db[i], st.lead[i])
                                    ELSE db[i]]
                   /\ unread' = st.unread
                   /\ mark_failures' = st.fails
    /\ pcW' = "idle"
    /\ UNCHANGED <<lead, performance_metrics, prospectorVars, callVars, arrived>>

\* process_pending_leads, "Run RecordKeeper Third", to the end of the run.
WorkerRecordKeeper ==
    /\ pcW = "record_keeper"
    /\ LET leads_to_archive == Range(load_leads_by_status(db, "not_interested")
                                     \o load_leads_by_status(db, "wrong_person"))
       IN  \E connected \in BOOLEAN :
               db' = [i \in 1..Len(db) |->
                         IF i \in leads_to_archive
                         THEN update_lead_in_db(
                                  publish_lead(db[i], RecordKeeper(load_lead(db[i]), connected)),
                                  RecordKeeper(load_lead(db[i]), connected))
                         ELSE db[i]]
    /\ pcW' = "idle"
    /\ UNCHANGED <<lead, performance_metrics, prospectorVars, callVars, unread, arrived, mark_failures>>

InitRun(n) ==
    /\ lead \in [1..n -> {NewLead, InterestedLead}]
    /\ performance_metrics = initial_metrics(n)
    /\ pcP = "idle"
    /\ new_leads = <<>>
    /\ full_batches = <<>>
    /\ partial_batch = <<>>
    /\ futures = <<>>
    /\ threads = [w \in 1..num_workers |-> 0]
    /\ lead0 = lead
    /\ trace = [i \in 1..n |-> NoTrace]
    /\ db = [i \in 1..n |-> NoRow]
    /\ unread = [i \in 1..n |-> {}]
    /\ arrived = 0
    /\ pcW = "idle"
    /\ mark_failures = 0
    /\ NoManager
    /\ NoLimiter

Init == InitRun(PoolSize)

Next ==
    \/ ProspectorStart
    \/ \E w \in 1..num_workers : WorkerStart(w)
    \/ \E w \in 1..num_workers : ProcessBatch(w)
    \/ \E w \in 1..num_workers : ProcessSingle(w, SingleLLM)
    \/ ProspectorFinish

Spec == Init /\ [][Next]_vars

\* The same run with the scheduling of the executor: a worker thread that can take
\* or finish a work item does so (the call to the reasoning service returns or
\* raises), and the dispatching thread leaves the executor once all are done.
Dispatch ==
    \/ \E w \in 1..num_workers : WorkerStart(w)
    \/ \E w \in 1..num_workers : ProcessBatch(w)
    \/ \E w \in 1..num_workers : ProcessSingle(w, SingleLLM)
    \/ ProspectorFinish

InitDispatch == InitRun(DispatchPoolSize)

SpecDispatch == InitDispatch /\ [][Next]_vars /\ WF_vars(Dispatch)

\* The planning step alone, over a larger pool.
InitPlan == InitRun(PlanPoolSize)

SpecPlan == InitPlan /\ [][ProspectorStart]_vars

\* One lead scored on its own, for every answer a LeadScore can carry.
QualificationStatuses == {"QUALIFIED", "NOT_QUALIFIED", "NEEDS_REVIEW"}

AllSingleLLM ==
    {Raised} \cup {Returned(LeadScore(s, q, r)) :
                      s \in 0..100, q \in QualificationStatuses, r \in {Weak, ErrorInData}}

InitScore == InitRun(1)

NextScore ==
    \/ ProspectorStart
    \/ \E w \in 1..num_workers : WorkerStart(w)
    \/ \E w \in 1..num_workers : ProcessSingle(w, AllSingleLLM)
    \/ ProspectorFinish

SpecScore == InitScore /\ [][NextScore]_vars

\* The leads after outreach: global_state in the server, the qualified ones published
\* to the table, the mailbox empty.
InitLife ==
    /\ lead \in [1..LifePoolSize -> {NewLead, OutreachSentLead}]
    /\ performance_metrics = initial_metrics(LifePoolSize)
    /\ pcP = "idle"
    /\ new_leads = <<>>
    /\ full_batches = <<>>
    /\ partial_batch = <<>>
    /\ futures = <<>>
    /\ threads = [w \in 1..num_workers |-> 0]
    /\ lead0 = lead
    /\ trace = [i \in 1..LifePoolSize |-> NoTrace]
    /\ db = [i \in 1..LifePoolSize |-> publish_lead(NoRow, lead[i])]
    /\ unread = [i \in 1..LifePoolSize |-> {}]
    /\ arrived = 0
    /\ pcW = "idle"
    /\ mark_failures = 0
    /\ NoManager
    /\ NoLimiter

NextLife ==
    \/ \E i \in 1..LifePoolSize : ReplyArrives(i)
    \/ run_interpreter
    \/ WorkerFollowUps
    \/ WorkerScheduler
    \/ WorkerInterpreter
    \/ WorkerInterpreterAborts
    \/ WorkerRecordKeeper

SpecLife == InitLife /\ [][NextLife]_vars

\* The server: the on-demand triggers over global_state, one request at a time, and
\* the mailbox.
NextServer ==
    \/ ProspectorStart
    \/ \E w \in 1..num_workers : WorkerStart(w)
    \/ \E w \in 1..num_workers : ProcessSingle(w, SingleLLM)
    \/ ProspectorFinish
    \/ run_strategist
    \/ run_interpreter
    \/ \E i \in 1..LifePoolSize : ReplyArrives(i)

SpecServer == InitLife /\ [][NextServer]_vars

\* The server and the scheduled run side by side.
NextAll == NextServer \/ NextLife

SpecAll == InitLife /\ [][NextAll]_vars

\* No lead, no run: the state around the credential pool and the rate limiter.
NoPipeline ==
    /\ lead = <<>>
    /\ performance_metrics = initial_metrics(0)
    /\ pcP = "idle"
    /\ new_leads = <<>>
    /\ full_batches = <<>>
    /\ partial_batch = <<>>
    /\ futures = <<>>
    /\ threads = [w \in 1..num_workers |-> 0]
    /\ lead0 = <<>>
    /\ trace = <<>>
    /\ db = <<>>
    /\ unread = <<>>
    /\ arrived = 0
    /\ pcW = "idle"
    /\ mark_failures = 0

\* The credential pool: any environment, the import of app.key_manager, then threads
\* calling get_key_for_thread.
InitKeys ==
    /\ NoPipeline
    /\ NoLimiter
    /\ env \in [1..MaxKeys -> KeyValues \cup {"unset"}]
    /\ NotImported

NextKeys ==
    \/ Construct
    \/ \E t \in 1..KeyThreads :
          \/ GetKeyCheck(t)
          \/ GetKeyLock(t)
          \/ GetKeyIndex(t)
          \/ GetKeyAssign(t)
          \/ GetKeyReturn(t)

SpecKeys == InitKeys /\ [][NextKeys]_vars

\* The statistics of the pool: threads calling record_api_call and get_key_stats.
NextStats ==
    \/ Construct
    \/ \E t \in 1..KeyThreads :
          \/ RecordStart(t)
          \/ RecordLock(t)
          \/ RecordReadCalls(t)
          \/ RecordWriteCalls(t)
          \/ RecordReadErrors(t)
          \/ RecordWriteErrors(t)
          \/ RecordUnlock(t)
          \/ StatsStart(t)
          \/ StatsLock(t)
          \/ StatsReadCalls(t)
          \/ StatsReadErrors(t)
          \/ StatsUnlock(t)

SpecStats == InitKeys /\ [][NextStats]_vars

\* The rate limiter: threads calling the one decorated call_llm, and the clock.
InitRate == NoPipeline /\ NoManager /\ NoLimiter

NextRate ==
    \/ Tick
    \/ \E t \in 1..RateThreads :
          \/ LimiterEnter(t)
          \/ LimiterElapsed(t)
          \/ LimiterWake(t)
          \/ LimiterCall(t)
          \/ LimiterCallEnds(t)
          \/ LimiterStamp(t)

SpecRate == InitRate /\ [][NextRate]_vars

\* The same, with the scheduling the wrapper relies on: time passes, a thread
\* inside the wrapper keeps running, time.sleep returns and func returns or
\* raises.  Whether a thread makes another call is left to it.
InWrapper(t) ==
    \/ LimiterElapsed(t)
    \/ LimiterWake(t)
    \/ LimiterCall(t)
    \/ LimiterCallEnds(t)
    \/ LimiterStamp(t)

NextRateFair == NextRate \/ TickAsleep

\* The first call is made late: the clock is one tick from MaxClock.
InitRateFair ==
    /\ NoPipeline /\ NoManager
    /\ last_called = 0
    /\ clock = MaxClock - 1
    /\ rt = [t \in 1..RateThreads |-> IdleRT]
    /\ starts = <<>>

SpecRateFair ==
    /\ InitRateFair /\ [][NextRateFair]_vars
    /\ WF_vars(Tick \/ TickAsleep)
    /\ \A t \in 1..RateThreads : WF_vars(InWrapper(t))

(***************************************************************************)
(* Properties of the Prospector run.                                       *)
(***************************************************************************)
ItemsOf(i) == {j \in 1..Len(futures) : i \in Range(futures[j].leads)}

\* C1: the planning step cuts the NEW leads, in input order, into floor(n/5)
\* contiguous batches of exactly 5 and n mod 5 trailing singletons; batches then
\* singletons concatenate to the list, and floor(n/5) + n mod 5 items are dispatched.
C1_PlanPartitionsNewLeads ==
    pcP # "idle" =>
        LET n == Len(new_leads)
        IN  /\ Len(full_batches) = n \div batch_size
            /\ \A k \in 1..Len(full_batches) :
                  /\ Len(full_batches[k]) = batch_size
                  /\ \A m \in 1..batch_size :
                        full_batches[k][m] = new_leads[(k - 1) * batch_size + m]
            /\ Len(partial_batch) = n % batch_size
            /\ Flatten(full_batches) \o partial_batch = new_leads
            /\ Len(futures) = (n \div batch_size) + (n % batch_size)
            /\ \A j \in 1..Len(futures) :
                  IF j <= Len(full_batches)
                  THEN futures[j].kind = "batch" /\ futures[j].leads = full_batches[j]
                  ELSE /\ futures[j].kind = "single"
                       /\ futures[j].leads = <<partial_batch[j - Len(full_batches)]>>
            /\ \A a, b \in 1..n : a < b => new_leads[a] < new_leads[b]
            /\ Range(new_leads) = {i \in 1..Len(lead0) : lead0[i].status = "new"}

\* 12 NEW leads: two batches of 5 and two singletons, 4 work items.
C1_Witness ==
    /\ pcP = "running"
    /\ Len(new_leads) = 12
    /\ Len(full_batches) = 2
    /\ Len(partial_batch) = 2
    /\ Len(futures) = 4

\* C2: no work item is held by two workers at once, and when the run returns every lead
\* that was NEW at the start was in exactly one work item, taken by a worker exactly
\* once, got a score applied exactly once and is SCORED or FAILED; every other lead is
\* as it was at the start.
C2_EachNewLeadHandledOnce ==
    /\ \A w, v \in 1..num_workers : (w # v /\ threads[w] # 0) => threads[w] # threads[v]
    /\ pcP = "done" =>
          \A i \in 1..Len(lead) :
              IF lead0[i].status = "new"
              THEN /\ Cardinality(ItemsOf(i)) = 1
                   /\ \A j \in ItemsOf(i) : futures[j].runs = 1
                   /\ trace[i].applied = 1
                   /\ trace[i].by = ItemsOf(i)
                   /\ lead[i].status \in {"scored", "failed"}
              ELSE lead[i] = lead0[i] /\ trace[i] = NoTrace

\* A run over a batch, a single and a lead that was not NEW has returned.
C2_Witness ==
    /\ pcP = "done"
    /\ \E j, k \in 1..Len(futures) : futures[j].kind = "batch" /\ futures[k].kind = "single"
    /\ \E i \in 1..Len(lead) : lead0[i].status # "new"
    /\ \E i \in 1..Len(lead) : lead[i].status = "scored"
    /\ \E i \in 1..Len(lead) : lead[i].status = "failed"

\* What one score makes of a lead that was NEW.
ScoredAs(l, score) ==
    /\ l.score = score.lead_score
    /\ l.qualified_lead = (score.qualification_status = "QUALIFIED")
    /\ l.status = IF StartsWithError(score.reasoning) THEN "failed" ELSE "scored"

\* C3: whatever happens to the other work items, when the run returns the leads of every
\* work item whose own call returned carry that item's own scores, position by position
\* (SCORED unless the returned reasoning itself is an error text), and a step that
\* completes a work item changes no lead outside that item.
C3_FailureStaysInItsItem ==
    /\ [](pcP = "done" =>
            \A j \in 1..Len(futures) :
                futures[j].llm = "returned" =>
                    \A k \in 1..Len(futures[j].leads) :
                        ScoredAs(lead[futures[j].leads[k]], futures[j].scores[k]))
    /\ [][\A i \in 1..Len(lead) :
            lead'[i] # lead[i] =>
                \E j \in 1..Len(futures) :
                    /\ futures[j].state = "running"
                    /\ futures'[j].state = "done"
                    /\ i \in Range(futures[j].leads)]_vars

\* The run has returned; one item's call raised, another's returned and its lead is SCORED.
C3_Witness ==
    /\ pcP = "done"
    /\ \E j, k \in 1..Len(futures) :
          /\ futures[k].llm = "raised"
          /\ futures[j].llm = "returned"
          /\ futures[j].kind = "batch"
          /\ \A m \in 1..Len(futures[j].leads) :
                lead[futures[j].leads[m]].status = "scored"

\* C4: every lead of a work item whose reasoning-service call raised is FAILED and not
\* qualified.
C4_RaisedItemLeadsFailed ==
    \A j \in 1..Len(futures) :
        futures[j].llm = "raised" =>
            \A k \in 1..Len(futures[j].leads) :
                /\ lead[futures[j].leads[k]].status = "failed"
                /\ ~lead[futures[j].leads[k]].qualified_lead

\* The calls of a batch and of a single both raised.
C4_Witness ==
    \E j, k \in 1..Len(futures) :
        /\ futures[j].kind = "batch" /\ futures[j].llm = "raised"
        /\ futures[k].kind = "single" /\ futures[k].llm = "raised"

\* C5: every lead of a batch whose call returned another number of scores than leads
\* is FAILED.
C5_MismatchedBatchFailed ==
    \A j \in 1..Len(futures) :
        futures[j].llm = "mismatch" =>
            \A k \in 1..Len(futures[j].leads) :
                lead[futures[j].leads[k]].status = "failed"

\* C7: a lead that was INTERESTED when the run started keeps status, score and
\* qualified flag throughout the run.
C7_InterestedLeadNotScored ==
    \A i \in 1..Len(lead) :
        lead0[i].status = "interested" =>
            /\ lead[i].status = "interested"
            /\ lead[i].score = lead0[i].score
            /\ lead[i].qualified_lead = lead0[i].qualified_lead

\* A run that scored NEW leads beside an INTERESTED one has returned.
C7_Witness ==
    /\ pcP = "done"
    /\ \E i \in 1..Len(lead) : lead0[i].status = "interested"
    /\ \E i \in 1..Len(lead) : lead0[i].status = "new" /\ trace[i].applied = 1

\* The score from which the scoring prompt lets a lead be QUALIFIED.
QualificationThreshold == 50

\* C10: a qualified lead has a score, and it is at least the qualification threshold.
C10_QualifiedImpliesScoreAtLeastThreshold ==
    \A i \in 1..Len(lead) :
        lead[i].qualified_lead =>
            lead[i].score # NoScore /\ lead[i].score >= QualificationThreshold

(***************************************************************************)
(* Properties of the lifecycle: replies and the scheduled run.             *)
(***************************************************************************)
\* The statuses a stage is meant to act on.
InterpreterPre == {"outreach_sent", "scheduling_in_progress"}
SchedulerPre == {"interested", "meeting_time_confirmed"}
FollowupPre == {"outreach_sent", "follow_up_due"}
RecordKeeperPre == {"not_interested", "wrong_person"}

\* Status, score, qualified flag, message, intent, meeting details and history agree.
SameLead(a, b) ==
    /\ a.status = b.status
    /\ a.score = b.score
    /\ a.qualified_lead = b.qualified_lead
    /\ a.personalized_message = b.personalized_message
    /\ a.intent = b.intent
    /\ a.meeting_details = b.meeting_details
    /\ a.communication_history = b.communication_history

\* C6: a stage leaves every lead whose status is outside its precondition set as it
\* was, on the on-demand trigger (the leads of global_state, touched here by the
\* Interpreter alone) and in each stage of the scheduled run (the stored leads).
C6_StageLeavesOtherLeadsUnchanged ==
    [][/\ \A i \in 1..Len(lead) :
             lead[i].status \notin InterpreterPre => SameLead(lead'[i], lead[i])
       /\ \A i \in 1..Len(db) :
             LET pre == CASE pcW = "idle" -> FollowupPre
                          [] pcW = "scheduler" -> SchedulerPre
                          [] pcW = "interpreter" -> InterpreterPre
                          [] OTHER -> RecordKeeperPre
             IN  db[i].status \notin pre => SameLead(db'[i], db[i])]_vars

\* Position of a status in the lifecycle; a failure status ends it.
LifecycleRank(status) ==
    CASE status \in {"no_row", "new"} -> 0
      [] status = "scored" -> 1
      [] status = "message_generated" -> 2
      [] status = "outreach_sent" -> 3
      [] status = "follow_up_due" -> 4
      [] status \in {"interested", "not_interested", "wrong_person",
                     "needs_clarification"} -> 5
      [] status \in {"scheduling_in_progress", "archived"} -> 6
      [] status = "meeting_time_confirmed" -> 7
      [] status = "meeting_booked" -> 8
      [] OTHER -> 9

NotBackward(from, to) ==
    \/ LifecycleRank(to) >= LifecycleRank(from)
    \/ from = "follow_up_due" /\ to = "outreach_sent"

RepliesRecorded(h) == {k \in 1..Len(h) : h[k].type = "inbound_reply"}

RecordedOnce(h) ==
    \A j, k \in RepliesRecorded(h) : h[j].message = h[k].message => j = k

\* C9: the communication history of a lead never holds the same reply twice, also
\* after a run whose mark_as_read call failed.
C9_ReplyRecordedOnce ==
    /\ \A i \in 1..Len(lead) : RecordedOnce(lead[i].communication_history)
    /\ \A i \in 1..Len(db) : RecordedOnce(db[i].communication_history)

IsPrefix(h, g) == Len(h) <= Len(g) /\ \A k \in 1..Len(h) : g[k] = h[k]

\* C11: the communication history of a lead is append-only: in every step of every
\* stage (Prospector, Strategist, Interpreter, Follow-up, Supervisor and Scheduler,
\* RecordKeeper), for every lead of global_state and every stored lead, the history
\* before the step is a prefix of the history after it.
C11_HistoryAppendOnly ==
    [][/\ \A i \in 1..Len(lead) :
             IsPrefix(lead[i].communication_history, lead'[i].communication_history)
       /\ \A i \in 1..Len(db) :
             IsPrefix(db[i].communication_history, db'[i].communication_history)]_vars

\* A stored lead whose history grew in the Interpreter and then in the Scheduler, beside
\* a lead of global_state that the Prospector scored, the Strategist wrote to and the
\* Interpreter read a reply for.
C11_Witness ==
    /\ \E i \in 1..Len(db) :
          LET h == db[i].communication_history
          IN  /\ Len(h) = 3
              /\ h[1].type = "outreach_email"
              /\ h[2].type = "inbound_reply"
              /\ h[3].type = "outbound_scheduling"
    /\ \E i \in 1..Len(lead) :
          LET h == lead[i].communication_history
          IN  /\ trace[i].applied = 1
              /\ Len(h) = 2
              /\ h[1].type = "outreach_email"
              /\ h[2].type = "inbound_reply"

TerminalStatuses ==
    {"failed", "message_generation_failed", "follow_up_failed", "scheduling_failed",
     "scheduling_failed_no_slots", "booking_failed", "archived", "meeting_booked"}

\* C13: a terminal status is absorbing: no step of any stage, in the same run or a
\* later one, changes a lead (status, score, message, intent, meeting details,
\* history) that is FAILED, any *_FAILED, ARCHIVED or MEETING_BOOKED, in global_state
\* or in the table.
C13_TerminalStatusAbsorbing ==
    [][/\ \A i \in 1..Len(lead) :
             lead[i].status \in TerminalStatuses => SameLead(lead'[i], lead[i])
       /\ \A i \in 1..Len(db) :
             db[i].status \in TerminalStatuses => SameLead(db'[i], db[i])]_vars

\* The statuses a lead is declared to take.
DeclaredStatuses ==
    {"new", "scored", "message_generated", "outreach_sent", "follow_up_due",
     "follow_up_failed", "interested", "not_interested", "wrong_person",
     "needs_clarification", "scheduling_in_progress", "scheduling_failed",
     "meeting_time_confirmed", "meeting_booked", "booking_failed", "archived", "failed"}

\* C14: the status of every lead of global_state and of every stored lead is one of
\* the declared statuses, in every state.
C14_StatusIsDeclared ==
    /\ \A i \in 1..Len(lead) : lead[i].status \in DeclaredStatuses
    /\ \A i \in 1..Len(db) : db[i] # NoRow => db[i].status \in DeclaredStatuses

\* C15: the booking path is live: when the Interpreter of the scheduled run is about
\* to read a reply of a SCHEDULING_IN_PROGRESS lead, it can classify the reply as a
\* confirmed time and move the lead to MEETING_TIME_CONFIRMED with the confirmed time
\* in its meeting details; when the Scheduler is about to run with a
\* MEETING_TIME_CONFIRMED lead, it can leave it MEETING_BOOKED or BOOKING_FAILED.
C15_BookingPathLive ==
    /\ \A i \in 1..Len(db) :
          (/\ pcW = "interpreter"
           /\ db[i].status = "scheduling_in_progress"
           /\ unread[i] # {}) =>
              ENABLED (/\ WorkerInterpreter
                       /\ db'[i].status = "meeting_time_confirmed"
                       /\ db'[i].meeting_details = "confirmed_time")
    /\ \A i \in 1..Len(db) :
          (pcW = "scheduler" /\ db[i].status = "meeting_time_confirmed") =>
              ENABLED (/\ WorkerScheduler
                       /\ db'[i].status \in {"meeting_booked", "booking_failed"})

(***************************************************************************)
(* Properties of the credential pool.                                      *)
(***************************************************************************)
\* C16: every call of get_key_for_thread by one thread returns the same credential,
\* the one the pool holds for the thread, under any interleaving with the calls of
\* the other threads.
C16_SameKeyForThread ==
    \A t \in 1..KeyThreads :
        \A a \in 1..Len(got[t]) :
            /\ got[t][a] = got[t][1]
            /\ got[t][a] = thread_keys[t]
            /\ got[t][a] \in Range(keys)

\* Two threads whose calls overlapped have each called twice and hold different
\* credentials.
C16_Witness ==
    \E t, u \in 1..KeyThreads :
        /\ Len(got[t]) = 2
        /\ Len(got[u]) = 2
        /\ got[t][1] # got[u][1]
        /\ order[1].thread = t
        /\ order[2].thread = u

\* C17: with n >= 1 credentials, the k-th thread to be given a credential is given
\* credential (k - 1) mod n, from the count k - 1 of threads served before it; every
\* thread is served once, so no two threads are served from the same count.
C17_RoundRobinByFirstRequest ==
    /\ \A j \in 1..Len(order) :
          /\ Len(keys) >= 1
          /\ order[j].count = j - 1
          /\ order[j].key_index = (j - 1) % Len(keys)
          /\ thread_keys[order[j].thread] = keys[((j - 1) % Len(keys)) + 1]
    /\ \A j, k \in 1..Len(order) : order[j].thread = order[k].thread => j = k
    /\ \A t \in 1..KeyThreads :
          thread_keys[t] # "None" => \E j \in 1..Len(order) : order[j].thread = t

\* Two different credentials and three threads whose first calls overlapped: the third
\* one served holds the first credential again.
C17_Witness ==
    /\ Len(keys) = 2
    /\ keys[1] # keys[2]
    /\ Len(order) = 3
    /\ \A t \in 1..KeyThreads : kt[t].pc = "return" /\ got[t] = <<>>
    /\ thread_keys[order[3].thread] = keys[1]
    /\ thread_keys[order[2].thread] = keys[2]

\* The calls of record_api_call for key k that have stored the new value of "calls",
\* and of "errors".
CallsStored(k) ==
    Cardinality({t \in 1..KeyThreads :
                    kt[t].key = k /\ kt[t].pc \in {"read_errors", "write_errors", "unlock_r"}})

ErrorsStored(k) ==
    Cardinality({t \in 1..KeyThreads :
                    kt[t].key = k /\ kt[t].pc = "unlock_r" /\ ~kt[t].success})

\* C18: no update of record_api_call is lost: for every key, "calls" is the number of
\* calls that have returned or have stored their increment, and "errors" the number of
\* those with success false (so when no call is in progress the counters are exactly
\* the numbers of invocations); get_key_stats never returns errors above calls.
C18_StatsCountEveryCall ==
    /\ \A k \in DOMAIN key_stats :
          /\ key_stats[k].calls = invoked[k].calls + CallsStored(k)
          /\ key_stats[k].errors = invoked[k].errors + ErrorsStored(k)
    /\ \A s \in seen : s.errors <= s.calls

\* Every thread is back: one key was recorded by three overlapping calls, some of them
\* failures, and a get_key_stats call has returned figures with an error in them.
C18_Witness ==
    /\ \A t \in 1..KeyThreads : kt[t].pc = "idle" /\ kt[t].ops = MaxOps
    /\ \E k \in DOMAIN key_stats :
          /\ key_stats[k].calls >= 3
          /\ key_stats[k].errors >= 2
          /\ key_stats[k].errors < key_stats[k].calls
    /\ \E s \in seen : s.errors >= 1

\* C19: building the pool with no credential fails in the constructor: a pool that
\* exists has at least one credential, an environment without GROQ_API_KEY_1 never
\* yields a pool, and no thread ever operates on a pool that was not built.
C19_NoPoolWithoutKeys ==
    /\ manager = "built" => Len(keys) >= 1
    /\ (manager # "none" /\ env[1] = "unset") => manager = "error"
    /\ manager # "built" =>
          /\ order = <<>>
          /\ \A t \in 1..KeyThreads : kt[t] = IdleKT /\ got[t] = <<>>

\* GROQ_API_KEY_2 is set but GROQ_API_KEY_1 is not: the constructor has raised.
C19_Witness ==
    /\ manager = "error"
    /\ keys = <<>>
    /\ env[1] = "unset"
    /\ env[2] # "unset"

(***************************************************************************)
(* Properties of the rate limiter.                                         *)
(***************************************************************************)
\* C20: any two admitted calls under the same key start at least one interval apart,
\* whatever the interleaving of the calling threads.
C20_SameKeyCallsOneIntervalApart ==
    \A a, b \in 1..Len(starts) :
        (a < b /\ starts[a].key = starts[b].key) =>
            starts[b].time - starts[a].time >= interval

\* C21: when a single caller issues its calls one after another, the starts of
\* any two consecutive calls are at least one interval apart.
C21_SequentialCallsOneIntervalApart ==
    (\A t \in 2..RateThreads : rt[t].calls = 0) =>
        \A a \in 1..(Len(starts) - 1) :
            starts[a + 1].time - starts[a].time >= interval

\* C22: a call is made to wait only on account of an earlier call under its own
\* key: a thread sleeping in the wrapper holds a key that has been used before.
C22_WaitsOnlyForOwnKey ==
    \A t \in 1..RateThreads :
        rt[t].pc = "sleep" => \E a \in 1..Len(starts) : starts[a].key = rt[t].key

\* A thread has entered the wrapper and func has not been called yet.
Waiting(t) == rt[t].pc \in {"elapsed", "sleep", "call"}

\* How often func was called for thread t.
StartsOf(t) == Cardinality({a \in 1..Len(starts) : starts[a].thread = t})

\* C23: the limiter never drops a call.  Every call that has entered the wrapper
\* is admitted (func is called) and then leaves the wrapper with the result or
\* the exception of func, and func is called exactly once for each call: the
\* starts of a thread are its calls, less the one still waiting.
C23_EveryCallAdmittedOnce ==
    /\ [](\A t \in 1..RateThreads :
             StartsOf(t) = rt[t].calls - (IF Waiting(t) THEN 1 ELSE 0))
    /\ \A t \in 1..RateThreads : rt[t].pc # "idle" ~> rt[t].pc = "idle"

\* A call that was made to sleep has been admitted, while another call waits.
C23_Witness ==
    \E t, u \in 1..RateThreads :
        /\ rt[t].pc = "in_call"
        /\ last_called > 0
        /\ starts[Len(starts)].thread = t
        /\ starts[Len(starts)].time = last_called + interval
        /\ rt[u].pc = "sleep"

(***************************************************************************)
(* Properties of the dispatch of the Prospector.                           *)
(***************************************************************************)
\* What the responses recorded for the completed work items make of lead i.
Outcome(i) ==
    LET at == {<<j, k>> \in (1..Len(futures)) \X (1..batch_size) :
                  /\ futures[j].state = "done"
                  /\ k <= Len(futures[j].leads)
                  /\ futures[j].leads[k] = i}
    IN  IF at = {} THEN lead0[i]
        ELSE LET jk == CHOOSE x \in at : TRUE
             IN  process_lead_with_score(lead0[i], futures[jk[1]].scores[jk[2]])

QualifiedScores ==
    {<<j, k>> \in (1..Len(futures)) \X (1..batch_size) :
        /\ k <= Len(futures[j].scores)
        /\ futures[j].scores[k].qualification_status = "QUALIFIED"}

\* C24: the outcome of a dispatch does not depend on the order in which the work
\* items complete: in whatever order they have completed, every lead is what the
\* response to its own work item makes of it (status, score, qualified flag), and
\* when the run returns the counters have grown by the number of NEW leads and by
\* the number of QUALIFIED scores among the responses.
C24_OutcomeIndependentOfCompletionOrder ==
    /\ pcP \in {"running", "done"} => \A i \in 1..Len(lead) : lead[i] = Outcome(i)
    /\ pcP = "done" =>
          /\ performance_metrics.processed_leads = Len(new_leads)
          /\ performance_metrics.qualified_leads = Cardinality(QualifiedScores)

\* A work item submitted later has completed while an earlier one is still running,
\* and one of its leads is qualified.
C24_Witness ==
    \E j, k \in 1..Len(futures) :
        /\ j < k
        /\ futures[j].state = "running"
        /\ futures[k].state = "done"
        /\ lead[futures[k].leads[1]].qualified_lead

\* C25: a dispatch terminates; when it returns every submitted work item has
\* produced its outcome, none is pending or running, and none was run a second
\* time; a work item that is complete is not touched again.
C25_DispatchTerminates ==
    /\ (pcP = "running") ~> (pcP = "done")
    /\ [](pcP = "done" =>
            \A j \in 1..Len(futures) :
                /\ futures[j].state = "done"
                /\ futures[j].runs = 1
                /\ Len(futures[j].scores) = Len(futures[j].leads))
    /\ [][\A j \in 1..Len(futures) :
            futures[j].state = "done" => futures'[j] = futures[j]]_vars

\* The run has returned with a batch whose call raised and whose leads all carry
\* the fallback failure, the batch having been run once.
C25_Witness ==
    /\ pcP = "done"
    /\ \E j \in 1..Len(futures) :
          /\ futures[j].kind = "batch"
          /\ futures[j].llm = "raised"
          /\ futures[j].runs = 1
          /\ \A k \in 1..Len(futures[j].leads) :
                lead[futures[j].leads[k]].status = "failed"
    /\ performance_metrics.processed_leads = Len(new_leads)

(***************************************************************************)
(* Properties of the scheduled run, process_pending_leads.                 *)
(***************************************************************************)
\* The stage of process_pending_leads that runs at a position of the worker: a
\* run begins with check_for_follow_ups and Followup.
StageAt(pc) == IF pc = "idle" THEN "follow_ups" ELSE pc

\* The place of a stage in the stated priority order: Scheduler (bookings, then
\* offers), reply interpretation, archival, follow-up detection.
StatedRank(stage) ==
    CASE stage = "scheduler" -> 1
      [] stage = "interpreter" -> 2
      [] stage = "record_keeper" -> 3
      [] stage = "follow_ups" -> 4

\* C26: within a scheduled run the stages execute in the stated priority order:
\* whenever a run goes on from one stage to the next, the next stage comes later
\* in that order.
C26_StagesInStatedOrder ==
    [][(pcW' # pcW /\ pcW' # "idle") =>
          StatedRank(StageAt(pcW)) < StatedRank(StageAt(pcW'))]_vars

\* The statuses the Scheduler acts on.
ForScheduler(row) == row.status \in {"interested", "meeting_time_confirmed"}

\* C27: a lead that the Interpreter moves to INTERESTED or MEETING_TIME_CONFIRMED
\* during a run is not handled by the Scheduler in that run.  A lead enters these
\* statuses only in the Interpreter stage, after which the run has only its
\* archival stage left or is over; that stage leaves such a lead as it is, and a lead in
\* these statuses is changed only by the Scheduler stage, hence of a later run.
C27_SchedulerHandlesInLaterRun ==
    [][/\ \A i \in 1..Len(db) :
            /\ (~ForScheduler(db[i]) /\ ForScheduler(db'[i])) =>
                   (pcW = "interpreter" /\ pcW' \in {"record_keeper", "idle"})
            /\ (ForScheduler(db[i]) /\ db'[i] # db[i]) => pcW = "scheduler"
       /\ pcW = "record_keeper" => pcW' \in {"record_keeper", "idle"}
       /\ (pcW # "scheduler" /\ pcW' = "scheduler") => pcW = "idle"]_vars

\* The Interpreter stage of a run has just moved a lead to INTERESTED; the lead
\* carries the reply and no scheduling offer.
C27_Witness ==
    /\ pcW = "record_keeper"
    /\ \E i \in 1..Len(db) :
          /\ db[i].status = "interested"
          /\ RepliesRecorded(db[i].communication_history) # {}
          /\ ~HasEntry(load_lead(db[i]), "outbound_scheduling")

CollaboratorFails(l, r) ==
    \/ l.status = "interested" /\ (~r.slots \/ r.email # "sent")
    \/ l.status = "meeting_time_confirmed" /\ HasEntry(l, "outbound_scheduling") /\ ~r.event

StorePoolSize == 2

\* last_outreach_timestamp as check_for_follow_ups reads it: absent, older than two
\* days, or newer.
Timestamps == {"None", "old", "now"}

\* The outreach entry of a message that was sent: it carries the mail thread.
sent_entry == Entry("outreach_email", 0, "None", "thread")

StoredLead(status, score, history, timestamp) ==
    [OutreachSentLead EXCEPT !.status = status, !.score = score,
                             !.communication_history = history,
                             !.last_outreach_timestamp = timestamp]

\* The qualified leads a caller of update_lead_in_db holds: waiting for a reply
\* (with or without timestamp and thread), due for a follow-up, interested with a
\* high or a normal score, with a confirmed meeting time, and not interested.
StoreLeads ==
    {StoredLead("outreach_sent", 90, h, ts) :
         h \in {<<outreach_entry>>, <<sent_entry>>}, ts \in Timestamps}
    \cup {StoredLead("follow_up_due", 90, h, "None") :
              h \in {<<>>, <<outreach_entry>>, <<sent_entry>>}}
    \cup {[StoredLead("interested", sc,
                      <<sent_entry, Entry("inbound_reply", 1, "INTERESTED", "None")>>,
                      "None") EXCEPT !.intent = "INTERESTED"] : sc \in {90, 60}}
    \cup {[StoredLead("meeting_time_confirmed", 90,
                      <<sent_entry, Entry("inbound_reply", 1, "INTERESTED", "None"),
                        Entry("outbound_scheduling", 0, "None", "None"),
                        Entry("inbound_reply", 2, "MEETING_TIME_CONFIRMED", "None")>>,
                      "None") EXCEPT !.intent = "MEETING_TIME_CONFIRMED"]}
    \cup {[StoredLead("not_interested", 90,
                      <<sent_entry, Entry("inbound_reply", 1, "NOT_INTERESTED", "None")>>,
                      "None") EXCEPT !.intent = "NOT_INTERESTED"]}

\* update_lead_in_db(db_conn, lead) by a caller holding lead l for id i, between two
\* scheduled runs; lead[i] is the Lead object that was passed.
StorePersist(i) ==
    /\ pcW = "idle"
    /\ \E l \in StoreLeads :
          /\ lead' = [lead EXCEPT ![i] = l]
          /\ db' = [db EXCEPT ![i] = update_lead_in_db(@, l)]
    /\ UNCHANGED <<performance_metrics, prospectorVars, callVars, unread, arrived, pcW,
                   mark_failures>>

InitStore ==
    /\ lead \in [1..StorePoolSize -> StoreLeads]
    /\ performance_metrics = initial_metrics(StorePoolSize)
    /\ pcP = "idle"
    /\ new_leads = <<>>
    /\ full_batches = <<>>
    /\ partial_batch = <<>>
    /\ futures = <<>>
    /\ threads = [w \in 1..num_workers |-> 0]
    /\ lead0 = lead
    /\ trace = [i \in 1..StorePoolSize |-> NoTrace]
    /\ db = [i \in 1..StorePoolSize |-> publish_lead(NoRow, lead[i])]
    /\ unread = [i \in 1..StorePoolSize |-> {}]
    /\ arrived = 0
    /\ pcW = "idle"
    /\ mark_failures = 0
    /\ NoManager
    /\ NoLimiter

NextStore ==
    \/ \E i \in 1..StorePoolSize : StorePersist(i)
    \/ WorkerFollowUps
    \/ WorkerScheduler
    \/ WorkerInterpreter
    \/ WorkerRecordKeeper

SpecStore == InitStore /\ [][NextStore]_vars

(***************************************************************************)
(* Properties of storage.                                                  *)
(***************************************************************************)
\* The row holds the lead's state, column by column.
StoredAs(row, l) ==
    /\ row.status = l.status
    /\ row.qualified_lead = l.qualified_lead
    /\ row.score = l.score
    /\ row.personalized_message = l.personalized_message
    /\ row.intent = l.intent
    /\ row.meeting_details = l.meeting_details
    /\ row.last_outreach_timestamp = l.last_outreach_timestamp
    /\ row.communication_history = l.communication_history

C32_TerminalLeadsRetained ==
    [][/\ \A i \in 1..Len(db) : db[i] # NoRow => db'[i] # NoRow
       /\ (pcP' = "done" /\ pcW' = "idle") =>
              \A i \in 1..Len(lead) :
                  lead'[i].status \in {"archived", "failed"} =>
                      /\ db'[i] # NoRow
                      /\ db'[i].status = lead'[i].status]_vars

(***************************************************************************)
(* Properties of the run metrics.                                          *)
(***************************************************************************)
\* The leads that were new when the Prospector run began.
NewAtStart == {i \in 1..Len(lead0) : lead0[i].status = "new"}

\* C33: no counter of performance_metrics ever decreases or disappears; the step that
\* ends a Prospector run adds to processed_leads the number of leads that were new at
\* its start and to qualified_leads the number of those that ended qualified, no
\* other step changes these two counters, and qualified_leads <= processed_leads
\* after every step.
C33_MetricsOnlyGrow ==
    [][/\ \A k \in DOMAIN performance_metrics :
             /\ k \in DOMAIN performance_metrics'
             /\ performance_metrics'[k] >= performance_metrics[k]
       /\ IF pcP = "running" /\ pcP' = "done"
          THEN /\ performance_metrics'.processed_leads =
                      performance_metrics.processed_leads + Cardinality(NewAtStart)
               /\ performance_metrics'.qualified_leads =
                      performance_metrics.qualified_leads
                      + Cardinality({i \in NewAtStart : lead'[i].qualified_lead})
          ELSE /\ performance_metrics'.processed_leads = performance_metrics.processed_leads
               /\ performance_metrics'.qualified_leads = performance_metrics.qualified_leads
       /\ performance_metrics'.qualified_leads <= performance_metrics'.processed_leads]_vars

\* A run over two new leads has ended with one of them qualified, and a later step
\* has counted a reply.
C33_Witness ==
    /\ pcP = "done"
    /\ performance_metrics.processed_leads = 2
    /\ performance_metrics.qualified_leads = 1
    /\ performance_metrics.not_interested >= 1

(***************************************************************************)
(* Properties of one batch call.                                           *)
(***************************************************************************)
\* C34: in the step that completes a batch whose call returned as many scores as the
\* batch has leads, the lead at each position becomes what process_lead_with_score
\* makes of it with the score at the same position of the response, and every lead
\* outside the batch stays as it was.
C34_ScoresAppliedByPosition ==
    [][\A j \in 1..Len(futures) :
          (/\ futures[j].kind = "batch"
           /\ futures[j].state = "running"
           /\ futures'[j].state = "done"
           /\ futures'[j].llm = "returned") =>
              LET ids == futures[j].leads
              IN  /\ Len(futures'[j].scores) = Len(ids)
                  /\ \A k \in 1..Len(ids) :
                         lead'[ids[k]] = process_lead_with_score(lead[ids[k]],
                                                                 futures'[j].scores[k])
                  /\ \A i \in 1..Len(lead) : i \notin Range(ids) => lead'[i] = lead[i]]_vars

\* A batch has completed with a response whose first two scores differ, and so do
\* its first two leads.
C34_Witness ==
    \E j \in 1..Len(futures) :
        /\ futures[j].kind = "batch"
        /\ futures[j].state = "done"
        /\ futures[j].llm = "returned"
        /\ futures[j].scores[1].lead_score = 90
        /\ futures[j].scores[2].lead_score = 55
        /\ lead[futures[j].leads[1]].score = 90
        /\ lead[futures[j].leads[2]].score = 55
        /\ lead[futures[j].leads[1]].qualified_lead
        /\ ~lead[futures[j].leads[2]].qualified_lead

(***************************************************************************)
(* Properties of the follow-up stage.                                      *)
(***************************************************************************)
\* C35: the detection step at the start of a run stores as follow_up_due every row
\* with status outreach_sent whose last-outreach timestamp is older than two days,
\* and leaves every other row as it is.
C35_DetectionMovesDueLeads ==
    pcW = "idle" =>
        \A i \in 1..Len(db) :
            IF db[i].status = "outreach_sent" /\ db[i].last_outreach_timestamp = "old"
            THEN check_for_follow_ups(db)[i].status = "follow_up_due"
            ELSE check_for_follow_ups(db)[i] = db[i]

\* The follow-up for lead l can be sent in the thread of its first outreach entry.
HasThread(l) ==
    \E k \in 1..Len(l.communication_history) :
        /\ l.communication_history[k].type = "outreach_email"
        /\ l.communication_history[k].thread_id # "None"
        /\ \A m \in 1..(k - 1) : l.communication_history[m].type # "outreach_email"

CallClass(row) ==
    IF row.status = "meeting_time_confirmed" THEN 2
    ELSE IF row.score >= 80 THEN 0 ELSE 1

C38_OneReplyPerLeadPerRun ==
    [][(pcW' = pcW /\ arrived' = arrived) =>
          \A i \in 1..Len(lead) :
              IF lead'[i] = lead[i] THEN unread'[i] = unread[i]
              ELSE \E m \in unread[i] : \E a \in LeadIntents :
                       /\ lead'[i].communication_history =
                              Append(lead[i].communication_history,
                                     Entry("inbound_reply", m, a, "None"))
                       /\ lead'[i].status = status_map(a)
                       /\ lead'[i].intent = a
                       /\ unread'[i] \in {unread[i], unread[i] \ {m}}]_vars

\* Two replies of one lead had arrived; a run has handled one of them and marked it
\* as read, and the other is still unread.
C38_Witness ==
    \E i \in 1..Len(lead) :
        /\ arrived = 2
        /\ Cardinality(unread[i]) = 1
        /\ Len(lead[i].communication_history) = Len(lead0[i].communication_history) + 1
        /\ lead[i].communication_history[Len(lead[i].communication_history)].type
               = "inbound_reply"
        /\ lead[i].communication_history[Len(lead[i].communication_history)].message
               \notin unread[i]
        /\ lead[i].status # lead0[i].status

(***************************************************************************)
(* Properties of the storage round trip.                                   *)
(***************************************************************************)
\* C39: the lead loaded from a stored row equals what was persisted in status,
\* score, qualified flag, message, history, intent, meeting details and last-outreach
\* timestamp, so that persisting the loaded lead again leaves the row as it is.
C39_StorageRoundTrip ==
    \A i \in 1..Len(db) :
        db[i] # NoRow =>
            /\ StoredAs(db[i], load_lead(db[i]))
            /\ update_lead_in_db(db[i], load_lead(db[i])) = db[i]

(***************************************************************************)
(* Properties of a scored lead.                                            *)
(***************************************************************************)
\* C40: whatever the reasoning service answered, a lead that the Scorer has left
\* with status failed is not qualified.
C40_FailedImpliesNotQualified ==
    \A i \in 1..Len(lead) :
        (trace[i] # NoTrace /\ lead[i].status = "failed") => ~lead[i].qualified_lead

====
